---------------------------- MODULE Spec2Model ----------------------------
(***************************************************************************)
(* GLES compute backend function factory of the graph API                   *)
(* (src/graph/backends/GLES/GCFunctionsFactory.cpp).                        *)
(*                                                                         *)
(* GCFunctionFactory::create(node, ctx) is the only entry point.  It        *)
(* switches on the node type and forwards to one of ten file-local          *)
(* lowerers.  Every lowerer is modelled as an operator that returns the     *)
(* SET of results the call can end with: a result records how the call      *)
(* ended, which tensor references were resolved, which memory managers      *)
(* were looked up, which functions were configured with which operands,    *)
(* which backing tensor pointers were dereferenced, and the data types of   *)
(* the backing tensors after the call.  The set has more than one element   *)
(* only where the code dereferences a null pointer (undefined behaviour):   *)
(* the call may then crash or go on with an arbitrary value read.           *)
(*                                                                         *)
(* ARM_COMPUTE_ERROR_ON(c) is modelled as raising a fatal error when c      *)
(* holds, ARM_COMPUTE_ERROR(msg) as raising a fatal error always.           *)
(***************************************************************************)
EXTENDS Integers, Sequences, FiniteSets

VARIABLES
    node,       \* the INode handed to create(); node.null is the nullptr node
    ctx,        \* GraphContext: memory manager registered per target (0: none)
    dtype,      \* data type of every GC backing tensor (ITensorInfo::data_type)
    dtype0,     \* dtype when the latest call of create() was entered
    calls,      \* number of calls of create() made so far
    outcome,    \* how the latest call ended: "none" before the first call
    err,        \* which check raised the fatal error of the latest call
    resolved,   \* get_backing_tensor calls of the latest call, in order
    lookups,    \* get_memory_manager targets of the latest call, in order
    configured, \* functions configured by the latest call, with their operands
    derefs      \* backing tensor pointers the latest call dereferenced

vars == <<node, ctx, dtype, dtype0, calls, outcome, err, resolved, lookups,
          configured, derefs>>

---------------------------------------------------------------------------
(* Bounds of the model *)

\* most operand slots (inputs and outputs together) of a node that hold
\* something else than graph tensor 1: nullptr, a second GC tensor, a GC
\* tensor without a handle, or a tensor of another target
MaxOdd == 1

\* input counts from (arity - ArityDelta) to (arity + ArityDelta) are tried
ArityDelta == 1

\* output counts from 0 to MaxOutputs are tried
MaxOutputs == 1

\* input counts of a DepthConcatenate node go from 0 to MaxConcat
MaxConcat == 3

\* create() is called at most MaxCalls times on the node
MaxCalls == 2

---------------------------------------------------------------------------
(* The graph tensors the nodes refer to *)

NULL == 0       \* nullptr, for tensor references, backing tensors, managers
FATAL == -1     \* get_backing_tensor ended in ARM_COMPUTE_ERROR_ON
NoMM == -1      \* the function's constructor takes no memory manager

\* Tensor::desc().target of the graph tensors 1..4
target == <<"GC", "GC", "GC", "CL">>

\* Tensor::handle() != nullptr of the graph tensors 1..4
handle == <<TRUE, TRUE, FALSE, TRUE>>

Tensors == DOMAIN target
Refs == {NULL} \cup Tensors

\* the graph tensors whose handle holds an IGCTensor; the backing tensor of
\* graph tensor t is identified by t
GCBacked == {t \in Tensors : target[t] = "GC" /\ handle[t]}

DataTypes == {"F32", "QASYMM8", "S32"}

is_data_type_quantized_asymmetric(dt) == dt = "QASYMM8"

Targets == {"GC", "CL"}

\* the manager registered for target t, when there is one
ManagerOf(t) == IF t = "GC" THEN 1 ELSE 2

get_memory_manager(c, t) == c[t]

---------------------------------------------------------------------------
(* The nodes create() is called with *)

SupportedTypes ==
    {"ActivationLayer", "BatchNormalizationLayer", "ConvolutionLayer",
     "DepthConcatenateLayer", "DepthwiseConvolutionLayer", "EltwiseLayer",
     "FullyConnectedLayer", "NormalizationLayer", "PoolingLayer",
     "SoftmaxLayer"}

\* node types of the graph API the switch of create() has no case for
OtherTypes == {"FlattenLayer", "ReshapeLayer"}

ConvolutionMethods == {"DEFAULT", "GEMM", "DIRECT", "WINOGRAD"}
DepthwiseConvolutionMethods == {"DEFAULT", "GEMV", "OPTIMIZED_3x3"}
\* "OTHER" stands for any value that is none of ADD, SUB, MUL
EltwiseOperations == {"ADD", "SUB", "MUL", "OTHER"}
ConvertPolicies == {"WRAP", "SATURATE"}

\* the input count each lowerer asserts (DepthConcatenate asserts none)
NumInputs(type) ==
    CASE type = "BatchNormalizationLayer" -> 5
      [] type \in {"ConvolutionLayer", "DepthwiseConvolutionLayer",
                   "FullyConnectedLayer"} -> 3
      [] type = "EltwiseLayer" -> 2
      [] OTHER -> 1

InputCounts(type) ==
    IF type = "DepthConcatenateLayer"
    THEN 0..MaxConcat
    ELSE {n \in (NumInputs(type) - ArityDelta)..(NumInputs(type) + ArityDelta) :
            n >= 0}

\* the parameters only nodes of one type have; "-" where the node has none
Methods(type) ==
    CASE type = "ConvolutionLayer" -> ConvolutionMethods
      [] type = "DepthwiseConvolutionLayer" -> DepthwiseConvolutionMethods
      [] OTHER -> {"-"}
Operations(type) == IF type = "EltwiseLayer" THEN EltwiseOperations ELSE {"-"}
Policies(type) == IF type = "EltwiseLayer" THEN ConvertPolicies ELSE {"-"}
Enabled(type) == IF type = "DepthConcatenateLayer" THEN BOOLEAN ELSE {TRUE}

\* the contents of n operand slots: graph tensor 1 everywhere but in at most
\* MaxOdd slots, which hold any other reference
SlotFills(n) ==
    UNION { { [i \in 1..n |-> IF i \in F THEN f[i] ELSE 1] :
                f \in [F -> Refs \ {1}] } :
            F \in {S \in SUBSET (1..n) : Cardinality(S) <= MaxOdd} }

NodesOf(type) ==
    UNION { { [null |-> FALSE, type |-> type,
               inputs |-> SubSeq(s, 1, ni),
               outputs |-> SubSeq(s, ni + 1, ni + no),
               method |-> m, op |-> o, policy |-> p, enabled |-> e] :
                s \in SlotFills(ni + no), m \in Methods(type),
                o \in Operations(type), p \in Policies(type),
                e \in Enabled(type) } :
            ni \in InputCounts(type), no \in 0..MaxOutputs }

NullNode ==
    [null |-> TRUE, type |-> "-", inputs |-> <<>>, outputs |-> <<>>,
     method |-> "-", op |-> "-", policy |-> "-", enabled |-> TRUE]

Nodes == {NullNode} \cup UNION {NodesOf(t) : t \in SupportedTypes \cup OtherTypes}

---------------------------------------------------------------------------
(* Results of a call *)

Result(o, e, log, lk, cf, dr, dt) ==
    [outcome |-> o, err |-> e, resolved |-> log, lookups |-> lk,
     configured |-> cf, derefs |-> dr, dt |-> dt]

\* a configured function: its class, the operands and the memory manager it
\* was given (NoMM: none), the convert policy ("-": none), the scale (0: none)
Func(name, ins, out, mm, policy, scale) ==
    [name |-> name, inputs |-> ins, output |-> out, mm |-> mm,
     policy |-> policy, scale |-> scale]

\* the trailing ARM_COMPUTE_LOG_GRAPH_INFO of a lowerer reads info() of the
\* pointers ptrs and the function is returned; reading through a null
\* pointer may crash instead
LogInfo(r, ptrs) ==
    LET read == [r EXCEPT !.derefs = @ \cup ptrs]
    IN  IF NULL \in ptrs
        THEN {read, [read EXCEPT !.outcome = "crash"]}
        ELSE {read}

Min(S) == CHOOSE x \in S : \A y \in S : x <= y

---------------------------------------------------------------------------
(* The tensor resolver *)

\* get_backing_tensor that gives nullptr for a tensor of another target
\* instead of raising
get_backing_tensor_lenient(tensor) ==
    IF tensor # NULL
    THEN IF target[tensor] = "GC" /\ handle[tensor] THEN tensor ELSE NULL
    ELSE NULL

get_backing_tensor(tensor) ==
    IF tensor # NULL
    THEN IF target[tensor] # "GC"
         THEN FATAL
         ELSE IF handle[tensor] THEN tensor ELSE NULL
    ELSE NULL

\* the get_backing_tensor calls a lowerer makes for the references refs, in
\* order, up to the first one that ends in a fatal error
ResolveAll(refs) ==
    LET bts == [i \in 1..Len(refs) |-> get_backing_tensor(refs[i])]
        bad == {i \in 1..Len(refs) : bts[i] = FATAL}
        k   == IF bad = {} THEN Len(refs) ELSE Min(bad)
    IN  [i \in 1..k |-> [ref |-> refs[i], bt |-> bts[i]]]

Failed(log) == Len(log) > 0 /\ log[Len(log)].bt = FATAL

\* the coercion with the test negated: applied when the input is not quantized
CoerceBias_negated(input, biases, dt) ==
    IF input # NULL /\ biases # NULL
       /\ ~is_data_type_quantized_asymmetric(dt[input])
    THEN {[crash |-> FALSE, derefs |-> {input, biases},
           dt |-> [dt EXCEPT ![biases] = "S32"]]}
    ELSE {[crash |-> FALSE, derefs |-> {input}, dt |-> dt]}

\* if(is_data_type_quantized_asymmetric(input->info()->data_type()))
\*     biases->info()->set_data_type(DataType::S32);
\* The set of [crash, derefs, dt] the statement can end with.
CoerceBias(input, biases, dt) ==
    LET Then(dr) ==
            IF biases = NULL
            THEN {[crash |-> TRUE, derefs |-> dr \cup {NULL}, dt |-> dt],
                  [crash |-> FALSE, derefs |-> dr \cup {NULL}, dt |-> dt]}
            ELSE {[crash |-> FALSE, derefs |-> dr \cup {biases},
                   dt |-> [dt EXCEPT ![biases] = "S32"]]}
        Else(dr) == {[crash |-> FALSE, derefs |-> dr, dt |-> dt]}
    IN  IF input = NULL
        THEN {[crash |-> TRUE, derefs |-> {NULL}, dt |-> dt]}
             \cup Then({NULL}) \cup Else({NULL})
        ELSE IF is_data_type_quantized_asymmetric(dt[input])
             THEN Then({input})
             ELSE Else({input})

---------------------------------------------------------------------------
(* The lowerers.  n is the node, c the graph context, dt the data types of *)
(* the backing tensors when the lowerer is entered.                         *)

create_activation_layer(n, dt) ==
    IF Len(n.inputs) # 1 \/ Len(n.outputs) # 1
    THEN {Result("fatal", "arity", <<>>, <<>>, <<>>, {}, dt)}
    ELSE
    LET log == ResolveAll(<<n.inputs[1], n.outputs[1]>>) IN
    IF Failed(log)
    THEN {Result("fatal", "target", log, <<>>, <<>>, {}, dt)}
    ELSE
    LET input  == log[1].bt
        output == log[2].bt
        func   == Func("GCActivationLayer", <<input>>, output, NoMM, "-", 0)
    IN  LogInfo(Result("func", "-", log, <<>>, <<func>>, {}, dt), {input})

create_batch_normalization_layer(n, dt) ==
    IF Len(n.inputs) # 5 \/ Len(n.outputs) # 1
    THEN {Result("fatal", "arity", <<>>, <<>>, <<>>, {}, dt)}
    ELSE
    LET log == ResolveAll(<<n.inputs[1], n.inputs[2], n.inputs[3],
                            n.inputs[4], n.inputs[5], n.outputs[1]>>) IN
    IF Failed(log)
    THEN {Result("fatal", "target", log, <<>>, <<>>, {}, dt)}
    ELSE
    LET input  == log[1].bt
        mean   == log[2].bt
        var    == log[3].bt
        beta   == log[4].bt
        gamma  == log[5].bt
        output == log[6].bt
        func   == Func("GCBatchNormalizationLayer",
                       <<input, mean, var, beta, gamma>>, output, NoMM, "-", 0)
    IN  LogInfo(Result("func", "-", log, <<>>, <<func>>, {}, dt), {input})

\* create_convolution_layer with the test of the method negated: DIRECT gets
\* the general function, every other method the direct one
create_convolution_layer_swapped(n, c, dt) ==
    IF Len(n.inputs) # 3 \/ Len(n.outputs) # 1
    THEN {Result("fatal", "arity", <<>>, <<>>, <<>>, {}, dt)}
    ELSE
    LET log == ResolveAll(<<n.inputs[1], n.inputs[2], n.inputs[3],
                            n.outputs[1]>>) IN
    IF Failed(log)
    THEN {Result("fatal", "target", log, <<>>, <<>>, {}, dt)}
    ELSE
    LET input   == log[1].bt
        weights == log[2].bt
        biases  == log[3].bt
        output  == log[4].bt
        mm      == get_memory_manager(c, "GC")
        func    == IF n.method # "DIRECT"
                   THEN Func("GCDirectConvolutionLayer",
                             <<input, weights, biases>>, output, NoMM, "-", 0)
                   ELSE Func("GCConvolutionLayer",
                             <<input, weights, biases>>, output, mm, "-", 0)
    IN  UNION { IF q.crash
                THEN {Result("crash", "-", log, <<>>, <<>>, q.derefs, q.dt)}
                ELSE LogInfo(Result("func", "-", log, <<"GC">>, <<func>>,
                                    q.derefs, q.dt),
                             {input, weights, output}) :
                q \in CoerceBias(input, biases, dt) }

create_convolution_layer(n, c, dt) ==
    IF Len(n.inputs) # 3 \/ Len(n.outputs) # 1
    THEN {Result("fatal", "arity", <<>>, <<>>, <<>>, {}, dt)}
    ELSE
    LET log == ResolveAll(<<n.inputs[1], n.inputs[2], n.inputs[3],
                            n.outputs[1]>>) IN
    IF Failed(log)
    THEN {Result("fatal", "target", log, <<>>, <<>>, {}, dt)}
    ELSE
    LET input   == log[1].bt
        weights == log[2].bt
        biases  == log[3].bt
        output  == log[4].bt
        mm      == get_memory_manager(c, "GC")
        func    == IF n.method = "DIRECT"
                   THEN Func("GCDirectConvolutionLayer",
                             <<input, weights, biases>>, output, NoMM, "-", 0)
                   ELSE Func("GCConvolutionLayer",
                             <<input, weights, biases>>, output, mm, "-", 0)
    IN  UNION { IF q.crash
                THEN {Result("crash", "-", log, <<>>, <<>>, q.derefs, q.dt)}
                ELSE LogInfo(Result("func", "-", log, <<"GC">>, <<func>>,
                                    q.derefs, q.dt),
                             {input, weights, output}) :
                q \in CoerceBias(input, biases, dt) }

\* create_depth_concatenate_layer with the enable flag tested before the
\* output count is asserted
create_depth_concatenate_layer_flag_first(n, dt) ==
    IF ~n.enabled
    THEN {Result("null", "-", <<>>, <<>>, <<>>, {}, dt)}
    ELSE
    IF Len(n.outputs) # 1
    THEN {Result("fatal", "arity", <<>>, <<>>, <<>>, {}, dt)}
    ELSE
    LET log == ResolveAll(n.inputs \o <<n.outputs[1]>>) IN
    IF Failed(log)
    THEN {Result("fatal", "target", log, <<>>, <<>>, {}, dt)}
    ELSE
    LET inputs == [i \in 1..Len(n.inputs) |-> log[i].bt]
        output == log[Len(n.inputs) + 1].bt
        func   == Func("GCDepthConcatenateLayer", inputs, output, NoMM, "-", 0)
    IN  LogInfo(Result("func", "-", log, <<>>, <<func>>, {}, dt), {output})

\* create_depth_concatenate_layer with the loop over the inputs starting at
\* index 1: the first input is left out
create_depth_concatenate_layer_skip_first(n, dt) ==
    IF Len(n.outputs) # 1
    THEN {Result("fatal", "arity", <<>>, <<>>, <<>>, {}, dt)}
    ELSE
    IF ~n.enabled
    THEN {Result("null", "-", <<>>, <<>>, <<>>, {}, dt)}
    ELSE
    LET log == ResolveAll(Tail(n.inputs \o <<n.outputs[1]>>)) IN
    IF Failed(log)
    THEN {Result("fatal", "target", log, <<>>, <<>>, {}, dt)}
    ELSE
    LET inputs == [i \in 1..(Len(log) - 1) |-> log[i].bt]
        output == IF Len(log) > 0 THEN log[Len(log)].bt ELSE NULL
        func   == Func("GCDepthConcatenateLayer", inputs, output, NoMM, "-", 0)
    IN  LogInfo(Result("func", "-", log, <<>>, <<func>>, {}, dt), {output})

create_depth_concatenate_layer(n, dt) ==
    IF Len(n.outputs) # 1
    THEN {Result("fatal", "arity", <<>>, <<>>, <<>>, {}, dt)}
    ELSE
    IF ~n.enabled
    THEN {Result("null", "-", <<>>, <<>>, <<>>, {}, dt)}
    ELSE
    LET log == ResolveAll(n.inputs \o <<n.outputs[1]>>) IN
    IF Failed(log)
    THEN {Result("fatal", "target", log, <<>>, <<>>, {}, dt)}
    ELSE
    LET inputs == [i \in 1..Len(n.inputs) |-> log[i].bt]
        output == log[Len(n.inputs) + 1].bt
        func   == Func("GCDepthConcatenateLayer", inputs, output, NoMM, "-", 0)
    IN  LogInfo(Result("func", "-", log, <<>>, <<func>>, {}, dt), {output})

\* create_depthwise_convolution_layer that rejects the GEMV method only
create_depthwise_convolution_layer_default_too(n, dt) ==
    IF Len(n.inputs) # 3 \/ Len(n.outputs) # 1
    THEN {Result("fatal", "arity", <<>>, <<>>, <<>>, {}, dt)}
    ELSE
    LET log == ResolveAll(<<n.inputs[1], n.inputs[2], n.inputs[3],
                            n.outputs[1]>>) IN
    IF Failed(log)
    THEN {Result("fatal", "target", log, <<>>, <<>>, {}, dt)}
    ELSE
    LET input   == log[1].bt
        weights == log[2].bt
        biases  == log[3].bt
        output  == log[4].bt
        func    == Func("GCDepthwiseConvolutionLayer3x3",
                        <<input, weights, biases>>, output, NoMM, "-", 0)
    IN  UNION { IF q.crash
                THEN {Result("crash", "-", log, <<>>, <<>>, q.derefs, q.dt)}
                ELSE IF n.method # "GEMV"
                THEN LogInfo(Result("func", "-", log, <<>>, <<func>>,
                                    q.derefs, q.dt),
                             {input, weights, output})
                ELSE {Result("fatal", "unsupported", log, <<>>, <<>>,
                             q.derefs, q.dt)} :
                q \in CoerceBias(input, biases, dt) }

create_depthwise_convolution_layer(n, dt) ==
    IF Len(n.inputs) # 3 \/ Len(n.outputs) # 1
    THEN {Result("fatal", "arity", <<>>, <<>>, <<>>, {}, dt)}
    ELSE
    LET log == ResolveAll(<<n.inputs[1], n.inputs[2], n.inputs[3],
                            n.outputs[1]>>) IN
    IF Failed(log)
    THEN {Result("fatal", "target", log, <<>>, <<>>, {}, dt)}
    ELSE
    LET input   == log[1].bt
        weights == log[2].bt
        biases  == log[3].bt
        output  == log[4].bt
        func    == Func("GCDepthwiseConvolutionLayer3x3",
                        <<input, weights, biases>>, output, NoMM, "-", 0)
    IN  UNION { IF q.crash
                THEN {Result("crash", "-", log, <<>>, <<>>, q.derefs, q.dt)}
                ELSE IF n.method = "OPTIMIZED_3x3"
                THEN LogInfo(Result("func", "-", log, <<>>, <<func>>,
                                    q.derefs, q.dt),
                             {input, weights, output})
                ELSE {Result("fatal", "unsupported", log, <<>>, <<>>,
                             q.derefs, q.dt)} :
                q \in CoerceBias(input, biases, dt) }

\* create_eltwise_layer without the branch for SUB, and with the addition as
\* the fallback of the chain
create_eltwise_layer_add_fallback(n, dt) ==
    IF Len(n.inputs) # 2 \/ Len(n.outputs) # 1
    THEN {Result("fatal", "arity", <<>>, <<>>, <<>>, {}, dt)}
    ELSE
    LET log == ResolveAll(<<n.inputs[1], n.inputs[2], n.outputs[1]>>) IN
    IF Failed(log)
    THEN {Result("fatal", "target", log, <<>>, <<>>, {}, dt)}
    ELSE
    LET input1 == log[1].bt
        input2 == log[2].bt
        output == log[3].bt
    IN  IF input1 = NULL \/ input2 = NULL \/ output = NULL
        THEN {Result("fatal", "null_operand", log, <<>>, <<>>, {}, dt)}
        ELSE IF n.op = "MUL"
        THEN LogInfo(Result("func", "-", log, <<>>,
                            <<Func("GCPixelWiseMultiplication",
                                   <<input1, input2>>, output, NoMM, "-", 1)>>,
                            {}, dt),
                     {input1})
        ELSE LogInfo(Result("func", "-", log, <<>>,
                            <<Func("GCArithmeticAddition", <<input1, input2>>,
                                   output, NoMM, n.policy, 0)>>, {}, dt),
                     {input1})

create_eltwise_layer(n, dt) ==
    IF Len(n.inputs) # 2 \/ Len(n.outputs) # 1
    THEN {Result("fatal", "arity", <<>>, <<>>, <<>>, {}, dt)}
    ELSE
    LET log == ResolveAll(<<n.inputs[1], n.inputs[2], n.outputs[1]>>) IN
    IF Failed(log)
    THEN {Result("fatal", "target", log, <<>>, <<>>, {}, dt)}
    ELSE
    LET input1 == log[1].bt
        input2 == log[2].bt
        output == log[3].bt
    IN  IF input1 = NULL \/ input2 = NULL \/ output = NULL
        THEN {Result("fatal", "null_operand", log, <<>>, <<>>, {}, dt)}
        ELSE IF n.op = "ADD"
        THEN LogInfo(Result("func", "-", log, <<>>,
                            <<Func("GCArithmeticAddition", <<input1, input2>>,
                                   output, NoMM, n.policy, 0)>>, {}, dt),
                     {input1})
        ELSE IF n.op = "SUB"
        THEN {Result("fatal", "unsupported", log, <<>>, <<>>, {}, dt)}
        ELSE IF n.op = "MUL"
        THEN LogInfo(Result("func", "-", log, <<>>,
                            <<Func("GCPixelWiseMultiplication",
                                   <<input1, input2>>, output, NoMM, "-", 1)>>,
                            {}, dt),
                     {input1})
        ELSE {Result("fatal", "unsupported", log, <<>>, <<>>, {}, dt)}

create_fully_connected_layer(n, c, dt) ==
    IF Len(n.inputs) # 3 \/ Len(n.outputs) # 1
    THEN {Result("fatal", "arity", <<>>, <<>>, <<>>, {}, dt)}
    ELSE
    LET log == ResolveAll(<<n.inputs[1], n.inputs[2], n.inputs[3],
                            n.outputs[1]>>) IN
    IF Failed(log)
    THEN {Result("fatal", "target", log, <<>>, <<>>, {}, dt)}
    ELSE
    LET input   == log[1].bt
        weights == log[2].bt
        biases  == log[3].bt
        output  == log[4].bt
        func    == Func("GCFullyConnectedLayer", <<input, weights, biases>>,
                        output, get_memory_manager(c, "GC"), "-", 0)
    IN  IF input = NULL \/ weights = NULL \/ output = NULL
        THEN {Result("fatal", "null_operand", log, <<"GC">>, <<func>>, {}, dt)}
        ELSE LogInfo(Result("func", "-", log, <<"GC">>, <<func>>, {}, dt),
                     {input, weights, biases, output})

create_normalization_layer(n, dt) ==
    IF Len(n.inputs) # 1 \/ Len(n.outputs) # 1
    THEN {Result("fatal", "arity", <<>>, <<>>, <<>>, {}, dt)}
    ELSE
    LET log == ResolveAll(<<n.inputs[1], n.outputs[1]>>) IN
    IF Failed(log)
    THEN {Result("fatal", "target", log, <<>>, <<>>, {}, dt)}
    ELSE
    LET input  == log[1].bt
        output == log[2].bt
        func   == Func("GCNormalizationLayer", <<input>>, output, NoMM, "-", 0)
    IN  IF input = NULL \/ output = NULL
        THEN {Result("fatal", "null_operand", log, <<>>, <<>>, {}, dt)}
        ELSE LogInfo(Result("func", "-", log, <<>>, <<func>>, {}, dt),
                     {input, output})

\* create_pooling_layer with the null checks negated
create_pooling_layer_negated_checks(n, dt) ==
    IF Len(n.inputs) # 1 \/ Len(n.outputs) # 1
    THEN {Result("fatal", "arity", <<>>, <<>>, <<>>, {}, dt)}
    ELSE
    LET log == ResolveAll(<<n.inputs[1], n.outputs[1]>>) IN
    IF Failed(log)
    THEN {Result("fatal", "target", log, <<>>, <<>>, {}, dt)}
    ELSE
    LET input  == log[1].bt
        output == log[2].bt
        func   == Func("GCPoolingLayer", <<input>>, output, NoMM, "-", 0)
    IN  IF input # NULL \/ output # NULL
        THEN {Result("fatal", "null_operand", log, <<>>, <<>>, {}, dt)}
        ELSE LogInfo(Result("func", "-", log, <<>>, <<func>>, {}, dt),
                     {input, output})

create_pooling_layer(n, dt) ==
    IF Len(n.inputs) # 1 \/ Len(n.outputs) # 1
    THEN {Result("fatal", "arity", <<>>, <<>>, <<>>, {}, dt)}
    ELSE
    LET log == ResolveAll(<<n.inputs[1], n.outputs[1]>>) IN
    IF Failed(log)
    THEN {Result("fatal", "target", log, <<>>, <<>>, {}, dt)}
    ELSE
    LET input  == log[1].bt
        output == log[2].bt
        func   == Func("GCPoolingLayer", <<input>>, output, NoMM, "-", 0)
    IN  IF input = NULL \/ output = NULL
        THEN {Result("fatal", "null_operand", log, <<>>, <<>>, {}, dt)}
        ELSE LogInfo(Result("func", "-", log, <<>>, <<func>>, {}, dt),
                     {input, output})

\* create_softmax_layer that asks for the manager of the node's own target
create_softmax_layer_gc_manager(n, c, dt) ==
    IF Len(n.inputs) # 1 \/ Len(n.outputs) # 1
    THEN {Result("fatal", "arity", <<>>, <<>>, <<>>, {}, dt)}
    ELSE
    LET log == ResolveAll(<<n.inputs[1], n.outputs[1]>>) IN
    IF Failed(log)
    THEN {Result("fatal", "target", log, <<>>, <<>>, {}, dt)}
    ELSE
    LET input  == log[1].bt
        output == log[2].bt
        func   == Func("GCSoftmaxLayer", <<input>>, output,
                       get_memory_manager(c, "GC"), "-", 0)
    IN  IF input = NULL \/ output = NULL
        THEN {Result("fatal", "null_operand", log, <<>>, <<>>, {}, dt)}
        ELSE LogInfo(Result("func", "-", log, <<"GC">>, <<func>>, {}, dt),
                     {input, output})

create_softmax_layer(n, c, dt) ==
    IF Len(n.inputs) # 1 \/ Len(n.outputs) # 1
    THEN {Result("fatal", "arity", <<>>, <<>>, <<>>, {}, dt)}
    ELSE
    LET log == ResolveAll(<<n.inputs[1], n.outputs[1]>>) IN
    IF Failed(log)
    THEN {Result("fatal", "target", log, <<>>, <<>>, {}, dt)}
    ELSE
    LET input  == log[1].bt
        output == log[2].bt
        func   == Func("GCSoftmaxLayer", <<input>>, output,
                       get_memory_manager(c, "CL"), "-", 0)
    IN  IF input = NULL \/ output = NULL
        THEN {Result("fatal", "null_operand", log, <<>>, <<>>, {}, dt)}
        ELSE LogInfo(Result("func", "-", log, <<"CL">>, <<func>>, {}, dt),
                     {input, output})

---------------------------------------------------------------------------
(* The dispatch *)

\* create whose switch falls through to the softmax case by default
create_default_softmax(n, c, dt) ==
    IF n.null
    THEN {Result("null", "-", <<>>, <<>>, <<>>, {}, dt)}
    ELSE
    CASE n.type = "ActivationLayer" -> create_activation_layer(n, dt)
      [] n.type = "BatchNormalizationLayer" ->
             create_batch_normalization_layer(n, dt)
      [] n.type = "ConvolutionLayer" -> create_convolution_layer(n, c, dt)
      [] n.type = "DepthConcatenateLayer" ->
             create_depth_concatenate_layer(n, dt)
      [] n.type = "DepthwiseConvolutionLayer" ->
             create_depthwise_convolution_layer(n, dt)
      [] n.type = "EltwiseLayer" -> create_eltwise_layer(n, dt)
      [] n.type = "FullyConnectedLayer" ->
             create_fully_connected_layer(n, c, dt)
      [] n.type = "NormalizationLayer" -> create_normalization_layer(n, dt)
      [] n.type = "PoolingLayer" -> create_pooling_layer(n, dt)
      [] OTHER -> create_softmax_layer(n, c, dt)

create(n, c, dt) ==
    IF n.null
    THEN {Result("null", "-", <<>>, <<>>, <<>>, {}, dt)}
    ELSE
    CASE n.type = "ActivationLayer" -> create_activation_layer(n, dt)
      [] n.type = "BatchNormalizationLayer" ->
             create_batch_normalization_layer(n, dt)
      [] n.type = "ConvolutionLayer" -> create_convolution_layer(n, c, dt)
      [] n.type = "DepthConcatenateLayer" ->
             create_depth_concatenate_layer(n, dt)
      [] n.type = "DepthwiseConvolutionLayer" ->
             create_depthwise_convolution_layer(n, dt)
      [] n.type = "EltwiseLayer" -> create_eltwise_layer(n, dt)
      [] n.type = "FullyConnectedLayer" ->
             create_fully_connected_layer(n, c, dt)
      [] n.type = "NormalizationLayer" -> create_normalization_layer(n, dt)
      [] n.type = "PoolingLayer" -> create_pooling_layer(n, dt)
      [] n.type = "SoftmaxLayer" -> create_softmax_layer(n, c, dt)
      [] OTHER -> {Result("null", "-", <<>>, <<>>, <<>>, {}, dt)}

---------------------------------------------------------------------------
(* The state machine: a graph context, a node and its tensors are set up,  *)
(* then the node is handed to create(), possibly more than once.            *)

\* the context has a memory manager for every target, or for none
Contexts ==
    {[t \in Targets |-> IF on THEN ManagerOf(t) ELSE NULL] : on \in BOOLEAN}

Init ==
    /\ node \in Nodes
    /\ ctx \in Contexts
    /\ dtype \in [GCBacked -> DataTypes]
    /\ dtype0 = dtype
    /\ calls = 0
    /\ outcome = "none"
    /\ err = "-"
    /\ resolved = <<>>
    /\ lookups = <<>>
    /\ configured = <<>>
    /\ derefs = {}

Call ==
    /\ calls < MaxCalls
    /\ \E r \in create(node, ctx, dtype) :
        /\ outcome' = r.outcome
        /\ err' = r.err
        /\ resolved' = r.resolved
        /\ lookups' = r.lookups
        /\ configured' = r.configured
        /\ derefs' = r.derefs
        /\ dtype' = r.dt
    /\ dtype0' = dtype
    /\ calls' = calls + 1
    /\ UNCHANGED <<node, ctx>>

Next == Call

Spec == Init /\ [][Next]_vars

---------------------------------------------------------------------------
(* Vocabulary of the properties *)

Called == calls > 0

Supported == ~node.null /\ node.type \in SupportedTypes

\* the node has the input and output counts its lowerer asserts
ArityOK ==
    /\ Len(node.outputs) = 1
    /\ \/ node.type = "DepthConcatenateLayer"
       \/ Len(node.inputs) = NumInputs(node.type)

\* the references the lowerer of an arity-correct node resolves
Operands == node.inputs \o node.outputs

\* reference x is a GC tensor with a handle: it resolves to a backing tensor
Backed(x) == x \in Tensors /\ target[x] = "GC" /\ handle[x]

\* reference x resolves to nullptr
Unbacked(x) == x = NULL \/ (x \in Tensors /\ target[x] = "GC" /\ ~handle[x])

AllBacked == \A i \in DOMAIN Operands : Backed(Operands[i])

NothingDone ==
    /\ resolved = <<>>
    /\ lookups = <<>>
    /\ configured = <<>>
    /\ derefs = {}
    /\ dtype = dtype0

---------------------------------------------------------------------------
(* C1: create() returns null, raises no fatal error, enters no lowerer and  *)
(* changes no tensor or context state, when the node is nullptr and when    *)
(* the node's type is none of the ten supported ones.                       *)
C1_NullOrUnsupportedReturnsNull ==
    (Called /\ (node.null \/ node.type \notin SupportedTypes))
        => (outcome = "null" /\ err = "-" /\ NothingDone)

\* a node of an unsupported type that holds a tensor of another target, which
\* every lowerer would reject, was dispatched
C1_Witness ==
    /\ Called
    /\ node.type \in OtherTypes
    /\ \E i \in DOMAIN node.inputs : node.inputs[i] \in Tensors
                                     /\ target[node.inputs[i]] # "GC"
    /\ outcome = "null"

(* C2 as stated: every supported node with the right arity and operands     *)
(* that all resolve to backing tensors yields a function, whatever its      *)
(* other parameters are.                                                    *)
C2_AlwaysAFunction ==
    (Called /\ Supported /\ ArityOK /\ AllBacked) => outcome = "func"

\* the parameter values for which the lowerer of the node builds no function
Disabled == node.type = "DepthConcatenateLayer" /\ ~node.enabled
Rejected ==
    \/ node.type = "DepthwiseConvolutionLayer" /\ node.method # "OPTIMIZED_3x3"
    \/ node.type = "EltwiseLayer" /\ node.op \notin {"ADD", "MUL"}

(* C2 amended: such a node yields exactly one configured function, unless   *)
(* it is a disabled DepthConcatenate node, which yields null, or a          *)
(* DepthwiseConvolution node whose method is not OPTIMIZED_3x3 or an        *)
(* Eltwise node whose operation is neither ADD nor MUL, which are fatal.    *)
C2_AFunctionUnlessDisabledOrRejected ==
    (Called /\ Supported /\ ArityOK /\ AllBacked) =>
        /\ (~Disabled /\ ~Rejected) => (outcome = "func" /\ Len(configured) = 1)
        /\ Disabled => outcome = "null"
        /\ Rejected => outcome = "fatal"

C2_Witness ==
    /\ Called /\ Supported /\ ArityOK /\ AllBacked
    /\ node.type = "BatchNormalizationLayer"
    /\ outcome = "func"

(* C3: a supported node whose input or output count is not the one its      *)
(* lowerer asserts ends in a fatal error, raised before any operand is      *)
(* resolved, any manager looked up, any function configured or any tensor   *)
(* changed.                                                                 *)
C3_ArityMismatchFatalFirst ==
    (Called /\ Supported /\ ~ArityOK) =>
        (outcome = "fatal" /\ err = "arity" /\ NothingDone)

\* a disabled DepthConcatenate node without its one output was lowered
C3_Witness ==
    /\ Called
    /\ node.type = "DepthConcatenateLayer"
    /\ ~node.enabled
    /\ Len(node.outputs) # 1
    /\ outcome = "fatal"

\* no operand of the node is a tensor of another target
NoForeign ==
    \A i \in DOMAIN Operands :
        Operands[i] = NULL \/ target[Operands[i]] = "GC"

\* the operand slots a lowerer cannot do without: all but the biases
IsBiasSlot(i) ==
    /\ node.type \in {"ConvolutionLayer", "DepthwiseConvolutionLayer",
                      "FullyConnectedLayer"}
    /\ i = 3
SomeRequiredUnbacked ==
    \E i \in DOMAIN Operands : ~IsBiasSlot(i) /\ Unbacked(Operands[i])

(* C4: when a required operand of a correctly sized node resolves to        *)
(* nullptr, lowering ends in a fatal error raised before a function is      *)
(* configured with the operand and before the null pointer is read.         *)
C4_NullOperandFatalBeforeUse ==
    (Called /\ Supported /\ ArityOK /\ ~Disabled /\ NoForeign
        /\ SomeRequiredUnbacked)
        => (outcome = "fatal" /\ configured = <<>> /\ NULL \notin derefs)

(* C5: lowering a Convolution or DepthwiseConvolution node whose input and  *)
(* biases have backing tensors leaves the biases S32 and every other data   *)
(* type alone when the input was QASYMM8, changes no data type when it was  *)
(* not, and lowering the node once more does not change the data type of    *)
(* the biases again.                                                        *)
C5_BiasCoercion ==
    (/\ Called /\ Supported /\ ArityOK /\ NoForeign
     /\ node.type \in {"ConvolutionLayer", "DepthwiseConvolutionLayer"}
     /\ Backed(node.inputs[1]) /\ Backed(node.inputs[3]))
    => LET input  == node.inputs[1]
           biases == node.inputs[3]
       IN  /\ is_data_type_quantized_asymmetric(dtype0[input]) =>
                /\ dtype[biases] = "S32"
                /\ \A t \in GCBacked \ {biases} : dtype[t] = dtype0[t]
           /\ ~is_data_type_quantized_asymmetric(dtype0[input]) =>
                dtype = dtype0
           /\ calls >= 2 => dtype[biases] = dtype0[biases]

\* a convolution with a quantized input and biases of their own was lowered
\* twice, and the biases are S32
C5_Witness ==
    /\ calls = 2
    /\ node.type = "ConvolutionLayer"
    /\ ArityOK /\ AllBacked
    /\ node.inputs[1] # node.inputs[3]
    /\ dtype[node.inputs[1]] = "QASYMM8"
    /\ dtype[node.inputs[3]] = "S32"
    /\ outcome = "func"

(* C6: lowering an Eltwise node with two inputs, one output and backing     *)
(* tensors for all three: ADD yields the addition with the node's convert   *)
(* policy, MUL the multiplication with scale 1, SUB and every other         *)
(* operation end in a fatal error with no function configured.              *)
C6_Eltwise ==
    (Called /\ node.type = "EltwiseLayer" /\ ArityOK /\ AllBacked) =>
        LET in1 == node.inputs[1]
            in2 == node.inputs[2]
            out == node.outputs[1]
        IN  /\ node.op = "ADD" =>
                /\ outcome = "func"
                /\ configured = <<Func("GCArithmeticAddition", <<in1, in2>>,
                                       out, NoMM, node.policy, 0)>>
            /\ node.op = "MUL" =>
                /\ outcome = "func"
                /\ configured = <<Func("GCPixelWiseMultiplication",
                                       <<in1, in2>>, out, NoMM, "-", 1)>>
            /\ node.op \notin {"ADD", "MUL"} =>
                /\ outcome = "fatal"
                /\ err = "unsupported"
                /\ configured = <<>>

C6_Witness ==
    /\ Called /\ node.type = "EltwiseLayer" /\ ArityOK /\ AllBacked
    /\ node.op = "SUB"
    /\ outcome = "fatal"

(* C7: lowering a DepthwiseConvolution node with three inputs, one output   *)
(* and backing tensors for all yields a function exactly when its method    *)
(* is OPTIMIZED_3x3, and that function is the 3x3 one; every other method   *)
(* ends in the fatal error for an unsupported configuration, with no        *)
(* function configured.                                                     *)
C7_DepthwiseOnlyOptimized3x3 ==
    (Called /\ node.type = "DepthwiseConvolutionLayer" /\ ArityOK /\ AllBacked)
    => /\ (outcome = "func") <=> (node.method = "OPTIMIZED_3x3")
       /\ node.method = "OPTIMIZED_3x3" =>
            /\ Len(configured) = 1
            /\ configured[1].name = "GCDepthwiseConvolutionLayer3x3"
       /\ node.method # "OPTIMIZED_3x3" =>
            /\ outcome = "fatal"
            /\ err = "unsupported"
            /\ configured = <<>>

C7_Witness ==
    /\ Called /\ node.type = "DepthwiseConvolutionLayer"
    /\ ArityOK /\ AllBacked
    /\ node.method = "DEFAULT"
    /\ outcome = "fatal"

(* C8: a DepthConcatenate node with its one output and the enable flag off  *)
(* yields null without a fatal error and without resolving any operand,     *)
(* whatever its operands are; with the flag on, N >= 1 inputs and backing   *)
(* tensors for all operands it yields one function, configured with the N   *)
(* inputs in the node's order and with the output.                          *)
C8_DepthConcatenate ==
    (Called /\ node.type = "DepthConcatenateLayer" /\ Len(node.outputs) = 1)
    => /\ ~node.enabled => (outcome = "null" /\ err = "-" /\ NothingDone)
       /\ (node.enabled /\ Len(node.inputs) >= 1 /\ AllBacked) =>
            /\ outcome = "func"
            /\ Len(configured) = 1
            /\ configured[1].name = "GCDepthConcatenateLayer"
            /\ configured[1].inputs = node.inputs
            /\ configured[1].output = node.outputs[1]

\* a disabled node with a tensor of another target among its inputs was
\* lowered
C8_Witness ==
    /\ Called /\ node.type = "DepthConcatenateLayer"
    /\ Len(node.outputs) = 1
    /\ ~node.enabled
    /\ ~NoForeign
    /\ outcome = "null"

(* C9: lowering a Convolution node with three inputs, one output and        *)
(* backing tensors for all configures exactly one function: the direct one, *)
(* given no memory manager, when the method is DIRECT, and otherwise the    *)
(* general one, given the manager the context holds for GC.                 *)
C9_ConvolutionVariant ==
    (Called /\ node.type = "ConvolutionLayer" /\ ArityOK /\ AllBacked) =>
        /\ outcome = "func"
        /\ Len(configured) = 1
        /\ node.method = "DIRECT" =>
            /\ configured[1].name = "GCDirectConvolutionLayer"
            /\ configured[1].mm = NoMM
        /\ node.method # "DIRECT" =>
            /\ configured[1].name = "GCConvolutionLayer"
            /\ configured[1].mm = ctx["GC"]
            /\ "GC" \in {lookups[i] : i \in DOMAIN lookups}

C9_Witness ==
    /\ Called /\ node.type = "ConvolutionLayer" /\ ArityOK /\ AllBacked
    /\ node.method = "DIRECT"
    /\ ctx["GC"] # NULL
    /\ outcome = "func"

(* C10: every get_backing_tensor call of a lowerer gives nullptr for a null *)
(* reference, ends the lowering in a fatal error for a tensor whose target  *)
(* is not GC, and otherwise gives the tensor's backing tensor, or nullptr   *)
(* when the tensor has no handle; two calls for one reference give one      *)
(* result, and a lowering that stops in the resolver has changed nothing.   *)
C10_Resolver ==
    /\ \A i \in DOMAIN resolved :
        LET x == resolved[i].ref
            b == resolved[i].bt
        IN  /\ x = NULL => b = NULL
            /\ (x # NULL /\ target[x] # "GC") =>
                 (b = FATAL /\ i = Len(resolved) /\ outcome = "fatal"
                  /\ configured = <<>> /\ dtype = dtype0)
            /\ (x # NULL /\ target[x] = "GC" /\ handle[x]) => b = x
            /\ (x # NULL /\ target[x] = "GC" /\ ~handle[x]) => b = NULL
    /\ \A i, j \in DOMAIN resolved :
        resolved[i].ref = resolved[j].ref => resolved[i].bt = resolved[j].bt
    /\ (Called /\ Supported /\ ArityOK /\ ~Disabled /\ ~NoForeign) =>
        (outcome = "fatal" /\ err = "target")

\* a lowering resolved one reference twice and then a tensor of another
\* target
C10_Witness ==
    /\ Called
    /\ \E i, j, k \in DOMAIN resolved :
        /\ i < j /\ j < k
        /\ resolved[i].ref = resolved[j].ref
        /\ resolved[i].bt # NULL
        /\ resolved[k].bt = FATAL

(* C11: whenever a call of create() ends in a fatal error, every backing    *)
(* tensor has the data type it had before the call and no function was      *)
(* constructed or configured.  Stated for the calls that read through no    *)
(* null pointer, whose behaviour the language defines.                      *)
C11_FatalChangesNothing ==
    (Called /\ outcome = "fatal" /\ NULL \notin derefs)
        => (dtype = dtype0 /\ configured = <<>>)

(* C12: the memory manager lookups of a call, by node type.  A              *)
(* FullyConnected node with three inputs, one output and no operand of      *)
(* another target looks up the manager of GC, once, and its function is     *)
(* given it; so does a Convolution node whose operands all have backing     *)
(* tensors; a Softmax node whose operands have backing tensors looks up     *)
(* the manager of CL, not of GC, and its function is given that one; no     *)
(* call looks up anything else, and calls for every other node type, for    *)
(* the null node included, look up nothing.                                 *)
C12_ManagerLookups ==
    Called =>
        /\ lookups \in
             (IF node.type \in {"FullyConnectedLayer", "ConvolutionLayer"}
              THEN {<<>>, <<"GC">>}
              ELSE IF node.type = "SoftmaxLayer"
              THEN {<<>>, <<"CL">>}
              ELSE {<<>>})
        /\ (node.type = "FullyConnectedLayer" /\ ArityOK /\ NoForeign) =>
             /\ lookups = <<"GC">>
             /\ Len(configured) = 1
             /\ configured[1].mm = ctx["GC"]
        /\ (node.type = "ConvolutionLayer" /\ ArityOK /\ AllBacked) =>
             lookups = <<"GC">>
        /\ (node.type = "SoftmaxLayer" /\ ArityOK /\ AllBacked) =>
             /\ lookups = <<"CL">>
             /\ Len(configured) = 1
             /\ configured[1].mm = ctx["CL"]
        /\ \A i \in DOMAIN configured :
             node.type \notin {"FullyConnectedLayer", "ConvolutionLayer",
                               "SoftmaxLayer"}
                => configured[i].mm = NoMM

\* a softmax node on GC tensors was lowered in a context that holds
\* different managers for GC and CL, and its function has the one of CL
C12_Witness ==
    /\ Called /\ node.type = "SoftmaxLayer" /\ ArityOK /\ AllBacked
    /\ \A i \in DOMAIN Operands : target[Operands[i]] = "GC"
    /\ ctx["CL"] # NULL /\ ctx["CL"] # ctx["GC"]
    /\ outcome = "func"
    /\ lookups = <<"CL">>
    /\ configured[1].mm = ctx["CL"]

===========================================================================
